---- MODULE Spec2Model ----
(***************************************************************************)
(* A model of pyonepassword/_py_op_cli.py: the `op` configuration          *)
(* accessor (OPCLIConfig), the session manager (_OPCLIExecute) and the     *)
(* argument-vector builder (_OPArgv).                                      *)
(*                                                                         *)
(* Python values are modelled as follows.                                  *)
(*   str      a TLA+ string                                                *)
(*   None     the string None (no str of the model's domains equals it)    *)
(*   bytes    a record [bytes |-> s]; the subprocess is taken to write     *)
(*            valid UTF-8, so s is the text the bytes decode to            *)
(*   list     a sequence                                                   *)
(*   raise    a result record with ok = FALSE and the exception in exc     *)
(***************************************************************************)
EXTENDS Integers, Sequences, FiniteSets, TLC

VARIABLES env, pc, kwargs, self, raised, calls, ghost, built

vars == <<env, pc, kwargs, self, raised, calls, ghost, built>>

sessionVars == <<env, pc, kwargs, self, raised, calls, ghost>>

----------------------------------------------------------------------------
(* Python values *)

None == "<None>"

\* bool(x) for x a str or None
Truthy(x) == x # None /\ x # ""

\* b"..." : a bytes object holding the UTF-8 encoding of s
B(s) == [bytes |-> s]

\* str.encode("utf-8")
Encode(s) == B(s)

\* bytes.decode("utf-8")
Decode(b) == b.bytes

\* the characters str.rstrip() and bytes.rstrip() strip
Whitespace == {" ", "\t", "\n", "\r", "\f"}

RECURSIVE RstripStr(_)
\* str.rstrip()
RstripStr(s) ==
    IF Len(s) = 0 THEN s
    ELSE IF SubSeq(s, Len(s), Len(s)) \in Whitespace
         THEN RstripStr(SubSeq(s, 1, Len(s) - 1))
         ELSE s

\* bytes.rstrip()
RstripBytes(b) == B(RstripStr(b.bytes))

\* `sub in s` for two str
StrContains(sub, s) ==
    \E k \in 1..(Len(s) - Len(sub) + 1) : SubSeq(s, k, k + Len(sub) - 1) = sub

RECURSIVE StrJoin(_, _)
\* sep.join(parts)
StrJoin(sep, parts) ==
    IF Len(parts) = 0 THEN ""
    ELSE IF Len(parts) = 1 THEN parts[1]
    ELSE parts[1] \o sep \o StrJoin(sep, Tail(parts))

----------------------------------------------------------------------------
(* Results and exceptions *)

NoCause == [kind |-> "none"]

NoExc == [kind |-> "none", msg |-> "", err_output |-> "", returncode |-> 0,
          path |-> "", errno |-> 0, cause |-> NoCause]

Ok(v) == [ok |-> TRUE, value |-> v, exc |-> NoExc]

Raise(e) == [ok |-> FALSE, value |-> None, exc |-> e]

\* FileNotFoundError raised by subprocess.run when argv[0] cannot be launched
FileNotFoundError(errno) ==
    [NoExc EXCEPT !.kind = "FileNotFoundError", !.errno = errno]

\* PermissionError raised by subprocess.run when argv[0] is found and may
\* not be executed
PermissionError(errno) ==
    [NoExc EXCEPT !.kind = "PermissionError", !.errno = errno]

\* OPCmdFailedException(stderr_output, returncode) from err
OPCmdFailedException(stderr_output, returncode) ==
    [NoExc EXCEPT !.kind = "OPCmdFailedException",
                  !.err_output = stderr_output,
                  !.returncode = returncode,
                  !.cause = [kind |-> "CalledProcessError"]]

\* OPNotFoundException(argv[0], err.errno) from err
OPNotFoundException(op_path, errno, err) ==
    [NoExc EXCEPT !.kind = "OPNotFoundException",
                  !.path = op_path, !.errno = errno, !.cause = err]

\* OPConfigNotFoundException(msg)
OPConfigNotFoundException(msg) ==
    [NoExc EXCEPT !.kind = "OPConfigNotFoundException", !.msg = msg]

\* OPNotSignedInException(msg)
OPNotSignedInException(msg) ==
    [NoExc EXCEPT !.kind = "OPNotSignedInException", !.msg = msg]

\* OPInvalidItemException(msg)
OPInvalidItemException(msg) ==
    [NoExc EXCEPT !.kind = "OPInvalidItemException", !.msg = msg]

\* OPSigninException.from_opexception(opfe) from opfe: the sign-in error
\* keeps the exit code and the stderr text of the command failure it wraps
OPSigninException_from_opexception(opfe) ==
    [NoExc EXCEPT !.kind = "OPSigninException",
                  !.err_output = opfe.err_output,
                  !.returncode = opfe.returncode,
                  !.cause = opfe]

----------------------------------------------------------------------------
(* _OPArgv: the argument-vector builder *)

\* bool(x) for x a list
NonEmpty(xs) == Len(xs) > 0

\* _OPArgv.__init__ with the global arguments placed after the command and
\* the subcommand
OPArgv_globals_last(op_exe, command, args, subcommand, global_args) ==
    [argv |-> <<op_exe>>
              \o (IF Truthy(command) THEN <<command>> ELSE <<>>)
              \o (IF Truthy(subcommand) THEN <<subcommand>> ELSE <<>>)
              \o global_args
              \o args,
     command |-> command,
     subcommand |-> IF Truthy(subcommand) THEN subcommand ELSE None,
     args_to_command |-> args]

\* _OPArgv.__init__(op_exe, command, args, subcommand=None, global_args=[])
OPArgv(op_exe, command, args, subcommand, global_args) ==
    [argv |-> <<op_exe>>
              \o global_args
              \o (IF Truthy(command) THEN <<command>> ELSE <<>>)
              \o (IF Truthy(subcommand) THEN <<subcommand>> ELSE <<>>)
              \o args,
     command |-> command,
     subcommand |-> IF Truthy(subcommand) THEN subcommand ELSE None,
     args_to_command |-> args]

\* _OPArgv.query_args
query_args(argv_obj) == Tail(argv_obj.argv)

\* _OPArgv.get_generic_argv
get_generic_argv(op_exe, get_subcommand, obj_identifier, sub_cmd_args) ==
    LET args == IF NonEmpty(sub_cmd_args)
                THEN <<obj_identifier>> \o sub_cmd_args
                ELSE <<obj_identifier>>
    IN  OPArgv(op_exe, "get", args, get_subcommand, <<>>)

\* get_item_argv with the field list appended before the vault
get_item_argv_fields_first(op_exe, item_name_or_uuid, vault, fields) ==
    LET a1 == IF Truthy(fields) THEN <<"--fields", fields>> ELSE <<>>
        a2 == IF Truthy(vault) THEN a1 \o <<"--vault", vault>> ELSE a1
    IN  get_generic_argv(op_exe, "item", item_name_or_uuid, a2)

\* _OPArgv.get_item_argv
get_item_argv(op_exe, item_name_or_uuid, vault, fields) ==
    LET a1 == IF Truthy(vault) THEN <<"--vault", vault>> ELSE <<>>
        a2 == IF Truthy(fields) THEN a1 \o <<"--fields", fields>> ELSE a1
    IN  get_generic_argv(op_exe, "item", item_name_or_uuid, a2)

\* _OPArgv.get_totp_argv
get_totp_argv(op_exe, item_name_or_uuid, vault) ==
    LET a1 == IF Truthy(vault) THEN <<"--vault", vault>> ELSE <<>>
    IN  get_generic_argv(op_exe, "totp", item_name_or_uuid, a1)

\* _OPArgv.get_document_argv
get_document_argv(op_exe, document_name_or_uuid, vault) ==
    LET a1 == IF Truthy(vault) THEN <<"--vault", vault>> ELSE <<>>
    IN  get_generic_argv(op_exe, "document", document_name_or_uuid, a1)

\* _OPArgv.normal_signin_argv
normal_signin_argv(op_exe, account_shorthand) ==
    LET global_args == IF Truthy(account_shorthand)
                       THEN <<"--account", account_shorthand>>
                       ELSE <<>>
        argv == <<account_shorthand, "--raw">>
    IN  OPArgv(op_exe, "signin", argv, None, global_args)

\* OPAbstractItem.first_url(): the first of the item's URL objects; the
\* optional result is a sequence, empty for None
first_url(item) == IF Len(item.urls) > 0 THEN <<item.urls[1]>> ELSE <<>>

\* OPAbstractItem.details_secure_tempfile(encoding): writes the item's
\* details to a temporary file and returns the file's name
details_secure_tempfile(item) == item.tempfile

\* a result together with the temporary files written on the way to it
WithTempfiles(r, files) ==
    [ok |-> r.ok, value |-> r.value, exc |-> r.exc, tempfiles |-> files]

\* create_item_argv with the item serialized before the template test
create_item_argv_serializes_first(op_exe, item, item_name, vault) ==
    LET template_filename == details_secure_tempfile(item)
    IN  IF ~item.is_from_template
        THEN WithTempfiles(Raise(OPInvalidItemException(item_name)),
                           <<template_filename>>)
        ELSE LET a0 == <<item.category, "--title", item_name,
                         "--template", template_filename>>
                 url == first_url(item)
                 url_value == IF NonEmpty(url) THEN url[1].url ELSE None
                 a1 == IF Truthy(url_value)
                       THEN a0 \o <<"--url", url_value>> ELSE a0
                 a2 == IF Truthy(vault) THEN a1 \o <<"--vault", vault>> ELSE a1
             IN  WithTempfiles(Ok(OPArgv(op_exe, "create", a2, "item", <<>>)),
                               <<template_filename>>)

\* create_item_argv with the vault appended before the URL
create_item_argv_vault_first(op_exe, item, item_name, vault) ==
    IF ~item.is_from_template
    THEN WithTempfiles(Raise(OPInvalidItemException(item_name)), <<>>)
    ELSE LET template_filename == details_secure_tempfile(item)
             a0 == <<item.category, "--title", item_name,
                     "--template", template_filename>>
             url == first_url(item)
             url_value == IF NonEmpty(url) THEN url[1].url ELSE None
             a1 == IF Truthy(vault) THEN a0 \o <<"--vault", vault>> ELSE a0
             a2 == IF Truthy(url_value)
                   THEN a1 \o <<"--url", url_value>> ELSE a1
         IN  WithTempfiles(Ok(OPArgv(op_exe, "create", a2, "item", <<>>)),
                           <<template_filename>>)

\* _OPArgv.create_item_argv: a result, the vector or OPInvalidItemException,
\* with the temporary files written by details_secure_tempfile
create_item_argv(op_exe, item, item_name, vault) ==
    IF ~item.is_from_template
    THEN WithTempfiles(Raise(OPInvalidItemException(item_name)), <<>>)
    ELSE LET template_filename == details_secure_tempfile(item)
             category == item.category
             a0 == <<category, "--title", item_name,
                     "--template", template_filename>>
             url == first_url(item)
             url_value == IF NonEmpty(url) THEN url[1].url ELSE None
             a1 == IF Truthy(url_value)
                   THEN a0 \o <<"--url", url_value>> ELSE a0
             a2 == IF Truthy(vault) THEN a1 \o <<"--vault", vault>> ELSE a1
         IN  WithTempfiles(Ok(OPArgv(op_exe, "create", a2, "item", <<>>)),
                           <<template_filename>>)

\* _OPArgv.get_verify_signin_argv
get_verify_signin_argv(op_exe) == OPArgv(op_exe, "list", <<"templates">>, None, <<>>)

\* _OPArgv.cli_version_argv
cli_version_argv(op_exe) == OPArgv(op_exe, None, <<>>, None, <<"--version">>)

\* _OPArgv.signout_argv
signout_argv(op_exe, account_shorthand, session, forget) ==
    LET global_args == <<"--account", account_shorthand, "--session", session>>
        signout_args == IF forget THEN <<"--forget">> ELSE <<>>
    IN  OPArgv(op_exe, "signout", signout_args, None, global_args)

\* _OPArgv.forget_argv
forget_argv(op_exe, account_shorthand) ==
    OPArgv(op_exe, "forget", <<account_shorthand>>, None, <<>>)

\* _OPArgv.list_generic_argv
list_generic_argv(op_exe, list_subcommand, sub_command_args) ==
    OPArgv(op_exe, "list", sub_command_args, list_subcommand, <<>>)

\* _OPArgv.list_items_argv
list_items_argv(op_exe, categories, include_archive, tags, vault) ==
    LET a1 == IF NonEmpty(categories)
              THEN <<"--categories", StrJoin(",", categories)>> ELSE <<>>
        a2 == IF include_archive THEN Append(a1, "--include-archive") ELSE a1
        a3 == IF NonEmpty(tags)
              THEN a2 \o <<"--tags", StrJoin(",", tags)>> ELSE a2
        a4 == IF Truthy(vault) THEN a3 \o <<"--vault", vault>> ELSE a3
    IN  list_generic_argv(op_exe, "items", a4)

----------------------------------------------------------------------------
(* _OPArgv.cmd_str: shlex.join of the vector, and shlex.split, the         *)
(* splitter that reads the command line back.                              *)

\* the characters shlex.quote leaves unquoted: [\w@%+=:,./-], ASCII
SafeChars ==
    LET safe == "abcdefghijklmnopqrstuvwxyzABCDEFGHIJKLMNOPQRSTUVWXYZ0123456789_@%+=:,./-"
    IN  {SubSeq(safe, k, k) : k \in 1..Len(safe)}

RECURSIVE StrReplace(_, _, _)
\* str.replace(old, new) for a one-character old
StrReplace(s, old, new) ==
    IF Len(s) = 0 THEN s
    ELSE (IF SubSeq(s, 1, 1) = old THEN new ELSE SubSeq(s, 1, 1))
         \o StrReplace(SubSeq(s, 2, Len(s)), old, new)

\* shlex.quote that puts every unsafe string in single quotes as it is
shlex_quote_plain(s) ==
    IF s = None \/ s = "" THEN "''"
    ELSE IF \A k \in 1..Len(s) : SubSeq(s, k, k) \in SafeChars THEN s
    ELSE "'" \o s \o "'"

\* shlex.quote: a falsy argument (the empty string, and None as well)
\* becomes '', a string of safe characters stays, any other string is put
\* in single quotes with each ' written as '"'"'
shlex_quote(s) ==
    IF s = None \/ s = "" THEN "''"
    ELSE IF \A k \in 1..Len(s) : SubSeq(s, k, k) \in SafeChars THEN s
    ELSE "'" \o StrReplace(s, "'", "'\"'\"'") \o "'"

\* shlex.join
shlex_join(split_command) ==
    StrJoin(" ", [k \in 1..Len(split_command) |-> shlex_quote(split_command[k])])

\* _OPArgv.cmd_str
cmd_str(self_argv) == shlex_join(self_argv.argv)

\* ValueError of shlex
ValueError(msg) == [NoExc EXCEPT !.kind = "ValueError", !.msg = msg]

\* the whitespace of shlex
ShlexWhitespace == {" ", "\t", "\r", "\n"}

\* the first position from k on that holds one of the characters, or the
\* position past the end
NextOf(s, k, chars) ==
    LET hits == {j \in k..Len(s) : SubSeq(s, j, j) \in chars}
    IN  IF hits = {} THEN Len(s) + 1
        ELSE CHOOSE j \in hits : \A m \in hits : j <= m

RECURSIVE read_token(_, _, _, _, _, _, _)
\* shlex.shlex(s, posix=True) with whitespace_split and without comments,
\* read to the end: the state of read_token is " " between tokens, "a" in
\* a word, the quote character inside quotes and the backslash after an
\* escape; a token ends at whitespace outside quotes and counts when it is
\* not empty or was quoted.  A run of characters that only extend the
\* token is read in one step.
read_token(s, k, state, escapedstate, token, quoted, tokens) ==
    IF k > Len(s)
    THEN IF state \in {"'", "\""} THEN Raise(ValueError("No closing quotation"))
         ELSE IF state = "\\" THEN Raise(ValueError("No escaped character"))
         ELSE Ok(IF token # "" \/ quoted THEN Append(tokens, token) ELSE tokens)
    ELSE LET nextchar == SubSeq(s, k, k)
             stop == CASE state = "'" -> NextOf(s, k, {"'"})
                       [] state = "\"" -> NextOf(s, k, {"\"", "\\"})
                       [] state = "a" -> NextOf(s, k, ShlexWhitespace \cup {"'", "\"", "\\"})
                       [] OTHER -> k
         IN  IF stop > k
             THEN read_token(s, stop, state, escapedstate,
                             token \o SubSeq(s, k, stop - 1),
                             quoted \/ state # "a", tokens)
             ELSE IF state = " "
             THEN IF nextchar \in ShlexWhitespace
                  THEN read_token(s, k + 1, " ", escapedstate, token, quoted, tokens)
                  ELSE IF nextchar = "\\"
                  THEN read_token(s, k + 1, "\\", "a", token, quoted, tokens)
                  ELSE IF nextchar \in {"'", "\""}
                  THEN read_token(s, k + 1, nextchar, escapedstate, token, TRUE, tokens)
                  ELSE read_token(s, k + 1, "a", escapedstate, nextchar, quoted, tokens)
             ELSE IF state \in {"'", "\""}
             THEN IF nextchar = state
                  THEN read_token(s, k + 1, "a", escapedstate, token, TRUE, tokens)
                  ELSE read_token(s, k + 1, "\\", state, token, TRUE, tokens)
             ELSE IF state = "\\"
             THEN read_token(s, k + 1, escapedstate, escapedstate,
                             (IF escapedstate = "\"" /\ nextchar \notin {"\\", "\""}
                              THEN token \o "\\" ELSE token) \o nextchar,
                             quoted, tokens)
             ELSE IF nextchar \in ShlexWhitespace
                  THEN IF token # "" \/ quoted
                       THEN read_token(s, k + 1, " ", escapedstate, "", FALSE,
                                       Append(tokens, token))
                       ELSE read_token(s, k + 1, " ", escapedstate, token, quoted, tokens)
                  ELSE IF nextchar \in {"'", "\""}
                  THEN read_token(s, k + 1, nextchar, escapedstate, token, TRUE, tokens)
                  ELSE read_token(s, k + 1, "\\", "a", token, quoted, tokens)

\* shlex.split(s): a result, the tokens or ValueError
shlex_split(s) == read_token(s, 1, " ", "a", "", FALSE, <<>>)

----------------------------------------------------------------------------
(* The process executor: _OPCLIExecute._run_raw and _run.  `ran` is what   *)
(* subprocess.run did with the argument vector: it could not launch        *)
(* argv[0] (FileNotFoundError when there is no such file, PermissionError  *)
(* when the file may not be executed), or the process ran and left its     *)
(* output and its exit code.                                               *)

NotLaunched(errno) ==
    [launch |-> "FileNotFoundError", errno |-> errno,
     stdout |-> B(""), stderr |-> B(""), returncode |-> 0]

NotPermitted(errno) ==
    [launch |-> "PermissionError", errno |-> errno,
     stdout |-> B(""), stderr |-> B(""), returncode |-> 0]

Ran(stdout, stderr, returncode) ==
    [launch |-> "ran", errno |-> 0,
     stdout |-> B(stdout), stderr |-> B(stderr), returncode |-> returncode]

\* what subprocess.run is given as input=: a str is encoded unless it is
\* empty, None is no input at all
stdin_of(input_string) ==
    IF input_string = None THEN [type |-> "NoneType", data |-> ""]
    ELSE IF Truthy(input_string) THEN [type |-> "bytes", data |-> Encode(input_string).bytes]
    ELSE [type |-> "str", data |-> input_string]

\* _run_raw with the exit code never checked (ignore_error always set)
run_raw_unchecked(argv, input_string, capture_stdout, ignore_error, ran) ==
    IF ran.launch = "FileNotFoundError"
    THEN Raise(FileNotFoundError(ran.errno))
    ELSE IF ran.launch = "PermissionError"
    THEN Raise(PermissionError(ran.errno))
    ELSE Ok(<<IF capture_stdout THEN ran.stdout ELSE None,
              ran.stderr, ran.returncode>>)

\* _OPCLIExecute._run_raw
run_raw(argv, input_string, capture_stdout, ignore_error, ran) ==
    IF ran.launch = "FileNotFoundError"
    THEN Raise(FileNotFoundError(ran.errno))
    ELSE IF ran.launch = "PermissionError"
    THEN Raise(PermissionError(ran.errno))
    ELSE IF ~ignore_error /\ ran.returncode # 0
    THEN Raise(OPCmdFailedException(RstripStr(Decode(ran.stderr)),
                                    ran.returncode))
    ELSE Ok(<<IF capture_stdout THEN ran.stdout ELSE None,
              ran.stderr, ran.returncode>>)

\* _run with the FileNotFoundError of the launch left as it is
run_untranslated(argv, capture_stdout, input_string, decode, ran) ==
    LET r == run_raw(argv, input_string, capture_stdout, FALSE, ran)
    IN  IF r.ok
        THEN Ok(IF decode THEN Decode(r.value[1]) ELSE r.value[1])
        ELSE r

\* _OPCLIExecute._run
run(argv, capture_stdout, input_string, decode, ran) ==
    LET r == run_raw(argv, input_string, capture_stdout, FALSE, ran)
    IN  IF r.ok
        THEN Ok(IF decode THEN Decode(r.value[1]) ELSE r.value[1])
        ELSE IF r.exc.kind = "FileNotFoundError"
        THEN Raise(OPNotFoundException(argv[1], r.exc.errno, r.exc))
        ELSE r

\* one subprocess invocation, as the session manager's history keeps it
Call(cmd, argv, input_string, ran) ==
    [cmd |-> cmd, argv |-> argv, stdin |-> stdin_of(input_string), ran |-> ran]

----------------------------------------------------------------------------
(* OPCLIConfig.  `fs` is the file system as the accessor finds it: the     *)
(* configuration home, which of the candidate paths exist, what open()     *)
(* does and what the file holds.                                           *)

OP_CONFIG_PATHS == <<".config/op/config", ".op/config">>

\* pathlib.Path(config_home, subpath)
PathJoin(config_home, subpath) == config_home \o "/" \o subpath

\* OPCLIConfig._get_config_path
get_config_path(fs) ==
    LET found == {k \in 1..Len(OP_CONFIG_PATHS) : OP_CONFIG_PATHS[k] \in fs.exists}
    IN  IF found = {} THEN None
        ELSE PathJoin(fs.config_home,
                      OP_CONFIG_PATHS[CHOOSE k \in found : \A m \in found : k <= m])

\* OPCLIConfig.__init__(configpath=None): a result, the loaded dict or
\* OPConfigNotFoundException
OPCLIConfig_init(configpath_arg, fs) ==
    LET configpath == IF configpath_arg = None
                      THEN get_config_path(fs) ELSE configpath_arg
    IN  IF configpath = None
        THEN Raise(OPConfigNotFoundException("No op configuration found"))
        ELSE IF fs.open = "FileNotFoundError"
        THEN Raise(OPConfigNotFoundException("op config not found at path"))
        ELSE IF fs.open = "PermissionError"
        THEN Raise(OPConfigNotFoundException("Permission denied accessing op config at path"))
        ELSE IF ~fs.json_valid
        THEN Raise(OPConfigNotFoundException("Unable to json decode config at path"))
        ELSE Ok(fs.json)

\* dict.get(key): None without the key
DictGet(d, key) == IF key \in DOMAIN d THEN d[key] ELSE None

RECURSIVE LastMatch(_, _, _)
\* the scan of get_config: every matching account overwrites the one before
LastMatch(accounts, shorthand, config) ==
    IF Len(accounts) = 0 THEN config
    ELSE LastMatch(Tail(accounts), shorthand,
                   IF Head(accounts).shorthand = shorthand
                   THEN <<Head(accounts)>> ELSE config)

\* get_config with the scan stopped at the first matching account
get_config_first_match(config, shorthand_arg) ==
    LET shorthand == IF shorthand_arg = None
                     THEN DictGet(config, "latest_signin") ELSE shorthand_arg
    IN  IF shorthand = None
        THEN Raise(OPConfigNotFoundException("No shorthand provided, no sign-ins found."))
        ELSE LET found == {k \in 1..Len(config.accounts) :
                             config.accounts[k].shorthand = shorthand}
             IN  IF found = {}
                 THEN Raise(OPConfigNotFoundException("No config found for shorthand"))
                 ELSE Ok(config.accounts[CHOOSE k \in found : \A m \in found : k <= m])

\* OPCLIConfig.get_config(shorthand=None): a result, the account entry or
\* OPConfigNotFoundException
get_config(config, shorthand_arg) ==
    LET shorthand == IF shorthand_arg = None
                     THEN DictGet(config, "latest_signin") ELSE shorthand_arg
    IN  IF shorthand = None
        THEN Raise(OPConfigNotFoundException("No shorthand provided, no sign-ins found."))
        ELSE LET found == LastMatch(config.accounts, shorthand, <<>>)
             IN  IF found = <<>>
                 THEN Raise(OPConfigNotFoundException("No config found for shorthand"))
                 ELSE Ok(found[1])

----------------------------------------------------------------------------
(* _OPCLIExecute: the methods the constructor calls.  Each returns a       *)
(* result that also lists the subprocess invocations it made.              *)

NOT_SIGNED_IN_TEXT == "not currently signed in"

OP_PATH == "op"

WithCalls(r, cs) == [ok |-> r.ok, value |-> r.value, exc |-> r.exc, calls |-> cs]

\* one variable for the sessions of every account
SessVarName_shared(account_shorthand) == "OP_SESSION_a"

\* 'OP_SESSION_{}'.format(account_shorthand)
SessVarName(account_shorthand) == "OP_SESSION_" \o account_shorthand

\* _OPCLIExecute._get_cli_version; OPCLIVersion(output) is taken to accept
\* whatever the probe printed, and the version is kept as the trimmed text
get_cli_version(op_path, ran) ==
    LET argv == cli_version_argv(op_path).argv
        output == run(argv, TRUE, None, TRUE, ran)
        done == <<Call("version", argv, None, ran)>>
    IN  IF output.ok
        THEN WithCalls(Ok(RstripStr(output.value)), done)
        ELSE WithCalls(output, done)

\* _verify_signin that returns the token whatever the probe's failure says
verify_signin_keeps_token(op_path, environ, sess_var_name, ran) ==
    LET token == environ[sess_var_name]
        argv == get_verify_signin_argv(op_path).argv
        r == run(argv, TRUE, None, FALSE, ran)
        done == <<Call("verify", argv, None, ran)>>
    IN  IF ~Truthy(token) THEN WithCalls(Ok(token), <<>>)
        ELSE IF r.ok THEN WithCalls(Ok(token), done)
        ELSE IF r.exc.kind = "OPCmdFailedException"
        THEN IF StrContains(NOT_SIGNED_IN_TEXT, r.exc.err_output)
             THEN WithCalls(Ok(token), done)
             ELSE WithCalls(r, done)
        ELSE WithCalls(r, done)

\* _verify_signin that discards the token on every failed probe
verify_signin_any_failure(op_path, environ, sess_var_name, ran) ==
    LET token == environ[sess_var_name]
        argv == get_verify_signin_argv(op_path).argv
        r == run(argv, TRUE, None, FALSE, ran)
        done == <<Call("verify", argv, None, ran)>>
    IN  IF ~Truthy(token) THEN WithCalls(Ok(token), <<>>)
        ELSE IF r.ok THEN WithCalls(Ok(token), done)
        ELSE IF r.exc.kind = "OPCmdFailedException"
        THEN WithCalls(Ok(None), done)
        ELSE WithCalls(r, done)

\* _verify_signin with the probe run whatever the environment holds
verify_signin_always_probes(op_path, environ, sess_var_name, ran) ==
    LET token == environ[sess_var_name]
        argv == get_verify_signin_argv(op_path).argv
        r == run(argv, TRUE, None, FALSE, ran)
        done == <<Call("verify", argv, None, ran)>>
    IN  IF r.ok THEN WithCalls(Ok(token), done)
        ELSE IF r.exc.kind = "OPCmdFailedException"
        THEN IF StrContains(NOT_SIGNED_IN_TEXT, r.exc.err_output)
             THEN WithCalls(Ok(None), done)
             ELSE WithCalls(r, done)
        ELSE WithCalls(r, done)

\* _OPCLIExecute._verify_signin
verify_signin(op_path, environ, sess_var_name, ran) ==
    LET token == environ[sess_var_name]
        argv == get_verify_signin_argv(op_path).argv
        r == run(argv, TRUE, None, FALSE, ran)
        done == <<Call("verify", argv, None, ran)>>
    IN  IF ~Truthy(token) THEN WithCalls(Ok(token), <<>>)
        ELSE IF r.ok THEN WithCalls(Ok(token), done)
        ELSE IF r.exc.kind = "OPCmdFailedException"
        THEN IF StrContains(NOT_SIGNED_IN_TEXT, r.exc.err_output)
             THEN WithCalls(Ok(None), done)
             ELSE WithCalls(r, done)
        ELSE WithCalls(r, done)

\* _run_signin without the except clause
run_signin_unwrapped(argv, password, ran) ==
    run(argv, TRUE, password, FALSE, ran)

\* _OPCLIExecute._run_signin
run_signin(argv, password, ran) ==
    LET output == run(argv, TRUE, password, FALSE, ran)
    IN  IF ~output.ok /\ output.exc.kind = "OPCmdFailedException"
        THEN Raise(OPSigninException_from_opexception(output.exc))
        ELSE output

\* _do_normal_signin with a failed sign-in run a second time
do_normal_signin_retried(op_path, account_shorthand, password, ran) ==
    LET signin_argv == normal_signin_argv(op_path, account_shorthand).argv
        output == run_signin(signin_argv, password, ran)
        done == <<Call("normal_signin", signin_argv, password, ran)>>
    IN  IF output.ok
        THEN WithCalls(Ok(Decode(RstripBytes(output.value))), done)
        ELSE WithCalls(output, done \o done)

\* _OPCLIExecute._do_normal_signin
do_normal_signin(op_path, account_shorthand, password, ran) ==
    LET signin_argv == normal_signin_argv(op_path, account_shorthand).argv
        output == run_signin(signin_argv, password, ran)
        done == <<Call("normal_signin", signin_argv, password, ran)>>
    IN  IF output.ok
        THEN WithCalls(Ok(Decode(RstripBytes(output.value))), done)
        ELSE WithCalls(output, done)

\* _OPCLIExecute._do_initial_signin
do_initial_signin(op_path, account_shorthand, signin_address, email_address, secret_key, password, ran) ==
    LET a0 == <<op_path, "signin", signin_address, email_address,
                secret_key, "--raw">>
        signin_argv == IF Truthy(account_shorthand)
                       THEN a0 \o <<"--shorthand", account_shorthand>> ELSE a0
        output == run_signin(signin_argv, password, ran)
        done == <<Call("initial_signin", signin_argv, password, ran)>>
    IN  IF output.ok
        THEN WithCalls(Ok(Decode(RstripBytes(output.value))), done)
        ELSE WithCalls(output, done)

----------------------------------------------------------------------------
(* _OPCLIExecute.__init__: the decisions the constructor takes *)

\* lines 142-153 with a configuration that cannot be loaded treated like one
\* without latest_signin
resolve_account_shorthand_not_signed_in(account_shorthand, fs) ==
    IF account_shorthand # None THEN Ok(account_shorthand)
    ELSE LET config == OPCLIConfig_init(None, fs)
             latest == IF config.ok /\ "latest_signin" \in DOMAIN config.value
                       THEN config.value["latest_signin"]
                       ELSE None
         IN  IF latest = None
             THEN Raise(OPNotSignedInException(
                      "Account shorthand not provided and not found in 'op' config"))
             ELSE Ok(latest)

\* lines 142-153: the account shorthand, from the argument or from the
\* `op` configuration; a result, the shorthand or the exception raised
resolve_account_shorthand(account_shorthand, fs) ==
    IF account_shorthand # None THEN Ok(account_shorthand)
    ELSE LET config == OPCLIConfig_init(None, fs)
         IN  IF ~config.ok THEN config
             ELSE LET latest == IF "latest_signin" \in DOMAIN config.value
                                THEN config.value["latest_signin"]
                                ELSE None
                  IN  IF latest = None
                      THEN Raise(OPNotSignedInException(
                               "Account shorthand not provided and not found in 'op' config"))
                      ELSE Ok(latest)

\* initial_signin decided by the truth of the arguments, not by `is None`
initial_signin_truthy(account_shorthand, signin_address, email_address, secret_key, password) ==
    /\ Truthy(account_shorthand) /\ Truthy(signin_address)
    /\ Truthy(email_address) /\ Truthy(secret_key) /\ Truthy(password)

\* lines 162-167: initial_signin = (None not in initial_signin_args)
initial_signin(account_shorthand, signin_address, email_address, secret_key, password) ==
    None \notin {account_shorthand, signin_address, email_address,
                 secret_key, password}

\* the refusal with `password is None` in place of `not password`
signin_refused_is_none(password, password_prompt) ==
    password = None /\ ~password_prompt

\* line 173: not password and not password_prompt
signin_refused(password, password_prompt) ==
    ~Truthy(password) /\ ~password_prompt

\* a reused token kept only when the sign-in is refused
needs_signin_always(token) == TRUE

\* line 172: not self._token
needs_signin(token) == ~Truthy(token)

----------------------------------------------------------------------------
(* The state: the process environment, and for every session manager the   *)
(* constructor's position, its arguments, the object's fields, the         *)
(* exception it raised, the subprocess invocations it made (in order), and *)
(* what it found when it started.                                          *)

Inst == {"op1", "op2"}

Shorthands == {"a", "b"}

SessVars == {SessVarName(sh) : sh \in Shorthands}

\* values OP_SESSION_<shorthand> may hold before any construction
EnvTokens == {None, "", "stale"}

KwargSpace ==
    [account_shorthand : {None, "a"},
     signin_address : {None, "my.1password.com"},
     email_address : {None, "user@example.com"},
     secret_key : {None, "A3-SECRET"},
     password : {None, "", "pw"},
     op_path : {OP_PATH},
     use_existing_session : BOOLEAN,
     password_prompt : BOOLEAN]

NoKwargs ==
    [account_shorthand |-> None, signin_address |-> None,
     email_address |-> None, secret_key |-> None, password |-> None,
     op_path |-> None, use_existing_session |-> FALSE,
     password_prompt |-> FALSE]

NoSelf ==
    [_cli_version |-> None, account_shorthand |-> None, op_path |-> None,
     _token |-> None, _sess_var |-> None]

Accounts == <<[shorthand |-> "a", url |-> "https://a.1password.com"],
              [shorthand |-> "b", url |-> "https://b.1password.com"]>>

NoFs ==
    [config_home |-> "", exists |-> {}, open |-> "unused",
     json_valid |-> FALSE, json |-> [accounts |-> <<>>]]

FsSamples ==
    { [config_home |-> "/home/u", exists |-> {}, open |-> "ok",
       json_valid |-> TRUE, json |-> [accounts |-> <<>>]],
      [config_home |-> "/home/u", exists |-> {".op/config"}, open |-> "ok",
       json_valid |-> TRUE,
       json |-> [latest_signin |-> "b", accounts |-> Accounts]],
      [config_home |-> "/xdg", exists |-> {".config/op/config", ".op/config"},
       open |-> "PermissionError",
       json_valid |-> TRUE, json |-> [accounts |-> <<>>]],
      [config_home |-> "/xdg", exists |-> {".config/op/config"},
       open |-> "FileNotFoundError",
       json_valid |-> TRUE, json |-> [accounts |-> <<>>]],
      [config_home |-> "/home/u", exists |-> {".config/op/config"},
       open |-> "ok", json_valid |-> FALSE, json |-> [accounts |-> <<>>]],
      [config_home |-> "/home/u", exists |-> {".config/op/config"},
       open |-> "ok", json_valid |-> TRUE, json |-> [accounts |-> Accounts]],
      [config_home |-> "/home/u", exists |-> {".config/op/config"},
       open |-> "ok", json_valid |-> TRUE,
       json |-> [latest_signin |-> None, accounts |-> Accounts]] }

NoGhost == [env0 |-> [v \in SessVars |-> None], fs |-> NoFs]

\* what `op --version` may do
VersionRuns ==
    { NotLaunched(2),
      NotPermitted(13),
      Ran("1.8.0\n", "", 0),
      Ran("", "[ERROR] unknown flag\n", 1) }

\* what `op list templates` may do
VerifyRuns ==
    { NotLaunched(2),
      NotPermitted(13),
      Ran("[templates]\n", "", 0),
      Ran("[]", "[WARN] you are not currently signed in to b\n", 0),
      Ran("", "[ERROR] You are not currently signed in. Please run op signin --help\n", 1),
      Ran("", "[ERROR] session expired, sign in again\n", 1),
      Ran("", "", 6) }

\* what `op signin` may do
SigninRuns ==
    { NotLaunched(2),
      NotPermitted(13),
      Ran("tokA\n", "", 0),
      Ran("stale \n", "[WARN] reused\n", 0),
      Ran("\n", "", 0),
      Ran("", "[ERROR] 401: Authentication required. \n", 1),
      Ran("tokB", "[ERROR] You are not currently signed in\n", 145) }

NoRun == Ran("", "", 0)

\* no request made of _OPArgv yet
NoRequest == [builder |-> "none", inputs |-> [op_exe |-> None], result |-> Raise(NoExc)]

Init ==
    /\ env \in [SessVars -> EnvTokens]
    /\ pc = [i \in Inst |-> "idle"]
    /\ kwargs = [i \in Inst |-> NoKwargs]
    /\ self = [i \in Inst |-> NoSelf]
    /\ raised = [i \in Inst |-> NoExc]
    /\ calls = [i \in Inst |-> <<>>]
    /\ ghost = [i \in Inst |-> NoGhost]
    /\ built = NoRequest

----------------------------------------------------------------------------
(* The constructor, one action per stretch of __init__ between two         *)
(* subprocess invocations.                                                 *)

Failed(i, exc) ==
    /\ pc' = [pc EXCEPT ![i] = "failed"]
    /\ raised' = [raised EXCEPT ![i] = exc]

Goto(i, label) ==
    /\ pc' = [pc EXCEPT ![i] = label]
    /\ UNCHANGED raised

Active(i) == pc[i] \notin {"idle", "done", "failed"}

\* _OPCLIExecute(**kw) is called
Construct(i, kw) ==
    /\ pc[i] = "idle"
    /\ kwargs' = [kwargs EXCEPT ![i] = kw]
    /\ ghost' = [ghost EXCEPT ![i] = [env0 |-> env, fs |-> NoFs]]
    /\ Goto(i, "version")
    /\ UNCHANGED <<env, self, calls, built>>

\* a construction begins while no other session manager exists
Start(i) ==
    /\ \A j \in Inst : pc[j] = "idle"
    /\ \E kw \in KwargSpace : Construct(i, kw)

\* line 141
GetCliVersion(i) ==
    /\ pc[i] = "version"
    /\ \E ran \in VersionRuns :
         LET r == get_cli_version(kwargs[i].op_path, ran)
         IN  /\ calls' = [calls EXCEPT ![i] = @ \o r.calls]
             /\ IF r.ok
                THEN /\ self' = [self EXCEPT ![i]._cli_version = r.value]
                     /\ Goto(i, "shorthand")
                ELSE /\ Failed(i, r.exc)
                     /\ UNCHANGED self
    /\ UNCHANGED <<env, kwargs, ghost, built>>

\* lines 142-167
ResolveShorthand(i) ==
    /\ pc[i] = "shorthand"
    /\ \E fs \in IF kwargs[i].account_shorthand = None THEN FsSamples ELSE {NoFs} :
         LET r == resolve_account_shorthand(kwargs[i].account_shorthand, fs)
         IN  /\ ghost' = [ghost EXCEPT ![i].fs = fs]
             /\ IF r.ok
                THEN /\ self' = [self EXCEPT ![i]._token = None,
                                             ![i].account_shorthand = r.value,
                                             ![i].op_path = kwargs[i].op_path]
                     /\ Goto(i, IF kwargs[i].use_existing_session
                                THEN "verify" ELSE "signin")
                ELSE /\ Failed(i, r.exc)
                     /\ UNCHANGED self
    /\ UNCHANGED <<env, kwargs, calls, built>>

\* lines 169-170 with the variable of an invalidated token unset
VerifySignin_unsets_env(i) ==
    /\ pc[i] = "verify"
    /\ LET sess_var_name == SessVarName(self[i].account_shorthand)
       IN  \E ran \in IF Truthy(env[sess_var_name]) THEN VerifyRuns ELSE {NoRun} :
             LET r == verify_signin(self[i].op_path, env, sess_var_name, ran)
             IN  /\ calls' = [calls EXCEPT ![i] = @ \o r.calls]
                 /\ IF r.ok
                    THEN /\ self' = [self EXCEPT ![i]._token = r.value]
                         /\ env' = IF r.value = None
                                   THEN [env EXCEPT ![sess_var_name] = None]
                                   ELSE env
                         /\ Goto(i, "signin")
                    ELSE /\ Failed(i, r.exc)
                         /\ UNCHANGED <<self, env>>
    /\ UNCHANGED <<kwargs, ghost, built>>

\* lines 169-170
VerifySignin(i) ==
    /\ pc[i] = "verify"
    /\ LET sess_var_name == SessVarName(self[i].account_shorthand)
       IN  \E ran \in IF Truthy(env[sess_var_name]) THEN VerifyRuns ELSE {NoRun} :
             LET r == verify_signin(self[i].op_path, env, sess_var_name, ran)
             IN  /\ calls' = [calls EXCEPT ![i] = @ \o r.calls]
                 /\ IF r.ok
                    THEN /\ self' = [self EXCEPT ![i]._token = r.value]
                         /\ Goto(i, "signin")
                    ELSE /\ Failed(i, r.exc)
                         /\ UNCHANGED self
    /\ UNCHANGED <<env, kwargs, ghost, built>>

\* lines 172-181
Signin(i) ==
    /\ pc[i] = "signin"
    /\ LET kw == kwargs[i]
           sh == self[i].account_shorthand
       IN  IF ~needs_signin(self[i]._token)
           THEN /\ Goto(i, "export")
                /\ UNCHANGED <<self, calls>>
           ELSE IF signin_refused(kw.password, kw.password_prompt)
           THEN /\ Failed(i, OPNotSignedInException(
                                 "No existing session and no password provided."))
                /\ UNCHANGED <<self, calls>>
           ELSE \E ran \in SigninRuns :
                  LET r == IF initial_signin(sh, kw.signin_address, kw.email_address,
                                             kw.secret_key, kw.password)
                           THEN do_initial_signin(self[i].op_path, sh, kw.signin_address,
                                                  kw.email_address, kw.secret_key,
                                                  kw.password, ran)
                           ELSE do_normal_signin(self[i].op_path, sh, kw.password, ran)
                  IN  /\ calls' = [calls EXCEPT ![i] = @ \o r.calls]
                      /\ IF r.ok
                         THEN /\ self' = [self EXCEPT ![i]._token = r.value]
                              /\ Goto(i, "export")
                         ELSE /\ Failed(i, r.exc)
                              /\ UNCHANGED self
    /\ UNCHANGED <<env, kwargs, ghost, built>>

\* lines 184-185 without the assignment to env
Export_not_exported(i) ==
    /\ pc[i] = "export"
    /\ self' = [self EXCEPT ![i]._sess_var = SessVarName(self[i].account_shorthand)]
    /\ Goto(i, "done")
    /\ UNCHANGED <<env, kwargs, calls, ghost, built>>

\* lines 184-185
Export(i) ==
    /\ pc[i] = "export"
    /\ LET sess_var_name == SessVarName(self[i].account_shorthand)
       IN  /\ self' = [self EXCEPT ![i]._sess_var = sess_var_name]
           /\ env' = [env EXCEPT ![sess_var_name] = self[i]._token]
    /\ Goto(i, "done")
    /\ UNCHANGED <<kwargs, calls, ghost, built>>

\* the caller drops the session manager, or the exception it was left with
Release(i) ==
    /\ pc[i] \in {"done", "failed"}
    /\ pc' = [pc EXCEPT ![i] = "idle"]
    /\ kwargs' = [kwargs EXCEPT ![i] = NoKwargs]
    /\ self' = [self EXCEPT ![i] = NoSelf]
    /\ raised' = [raised EXCEPT ![i] = NoExc]
    /\ calls' = [calls EXCEPT ![i] = <<>>]
    /\ ghost' = [ghost EXCEPT ![i] = NoGhost]
    /\ UNCHANGED <<env, built>>

Next ==
    \E i \in Inst :
        \/ Start(i)
        \/ GetCliVersion(i)
        \/ ResolveShorthand(i)
        \/ VerifySignin(i)
        \/ Signin(i)
        \/ Export(i)
        \/ Release(i)

Spec == Init /\ [][Next]_vars

----------------------------------------------------------------------------
(* The builders on their own: `built` holds the last request made of       *)
(* _OPArgv, with its inputs and its result.                                *)

Exes == {OP_PATH, "/usr/local/bin/op"}

Identifiers ==
    {"Example Login 1", "nok7367v4vbsfgg2fczwu4ei44", "Zoe's \"Wi-Fi\" \\ router"}

Vaults == {None, "", "Test Data"}

FieldLists == {None, "", "username,password"}

OptShorthands == {None, "", "a"}

SessionTokens == {"tokA", "stale"}

UrlLists ==
    { <<>>,
      <<[url |-> "https://one.example"]>>,
      <<[url |-> ""], [url |-> "https://two.example"]>>,
      <<[url |-> None], [url |-> "https://two.example"]>>,
      <<[url |-> "https://one.example"], [url |-> "https://two.example"]>> }

Items ==
    [is_from_template : BOOLEAN, category : {"Login"}, urls : UrlLists,
     tempfile : {"/tmp/tmpq0x1"}]

CategoryLists == {<<>>, <<"Login">>, <<"Login", "Password">>}

TagLists == {<<>>, <<"work", "web">>}

Request(builder, inputs, result) ==
    [builder |-> builder, inputs |-> inputs, result |-> result]

BuildGetItem ==
    \E e \in Exes, n \in Identifiers, v \in Vaults, f \in FieldLists :
        /\ built' = Request("get_item",
                           [op_exe |-> e, identifier |-> n, vault |-> v, fields |-> f],
                           Ok(get_item_argv(e, n, v, f)))
        /\ UNCHANGED sessionVars

BuildGetTotp ==
    \E e \in Exes, n \in Identifiers, v \in Vaults :
        /\ built' = Request("get_totp", [op_exe |-> e, identifier |-> n, vault |-> v],
                           Ok(get_totp_argv(e, n, v)))
        /\ UNCHANGED sessionVars

BuildGetDocument ==
    \E e \in Exes, n \in Identifiers, v \in Vaults :
        /\ built' = Request("get_document", [op_exe |-> e, identifier |-> n, vault |-> v],
                           Ok(get_document_argv(e, n, v)))
        /\ UNCHANGED sessionVars

BuildNormalSignin ==
    \E e \in Exes, sh \in OptShorthands :
        /\ built' = Request("normal_signin", [op_exe |-> e, account_shorthand |-> sh],
                           Ok(normal_signin_argv(e, sh)))
        /\ UNCHANGED sessionVars

BuildCreateItem ==
    \E e \in Exes, it \in Items, v \in Vaults :
        /\ built' = Request("create_item",
                           [op_exe |-> e, item |-> it, item_name |-> "New Login", vault |-> v],
                           create_item_argv(e, it, "New Login", v))
        /\ UNCHANGED sessionVars

BuildVerifySignin ==
    \E e \in Exes :
        /\ built' = Request("verify_signin", [op_exe |-> e], Ok(get_verify_signin_argv(e)))
        /\ UNCHANGED sessionVars

BuildCliVersion ==
    \E e \in Exes :
        /\ built' = Request("cli_version", [op_exe |-> e], Ok(cli_version_argv(e)))
        /\ UNCHANGED sessionVars

BuildSignout ==
    \E e \in Exes, sh \in Shorthands, t \in SessionTokens, f \in BOOLEAN :
        /\ built' = Request("signout",
                           [op_exe |-> e, account_shorthand |-> sh, session |-> t, forget |-> f],
                           Ok(signout_argv(e, sh, t, f)))
        /\ UNCHANGED sessionVars

BuildForget ==
    \E e \in Exes, sh \in Shorthands :
        /\ built' = Request("forget", [op_exe |-> e, account_shorthand |-> sh],
                           Ok(forget_argv(e, sh)))
        /\ UNCHANGED sessionVars

BuildListItems ==
    \E e \in Exes, c \in CategoryLists, a \in BOOLEAN, t \in TagLists, v \in Vaults :
        /\ built' = Request("list_items",
                           [op_exe |-> e, categories |-> c, include_archive |-> a,
                            tags |-> t, vault |-> v],
                           Ok(list_items_argv(e, c, a, t, v)))
        /\ UNCHANGED sessionVars

InitArgv ==
    /\ env = [v \in SessVars |-> None]
    /\ pc = [i \in Inst |-> "idle"]
    /\ kwargs = [i \in Inst |-> NoKwargs]
    /\ self = [i \in Inst |-> NoSelf]
    /\ raised = [i \in Inst |-> NoExc]
    /\ calls = [i \in Inst |-> <<>>]
    /\ ghost = [i \in Inst |-> NoGhost]
    /\ built = NoRequest

NextArgv ==
    \/ BuildGetItem
    \/ BuildGetTotp
    \/ BuildGetDocument
    \/ BuildNormalSignin
    \/ BuildCreateItem
    \/ BuildVerifySignin
    \/ BuildCliVersion
    \/ BuildSignout
    \/ BuildForget
    \/ BuildListItems

SpecArgv == InitArgv /\ [][NextArgv]_vars

----------------------------------------------------------------------------
(* What the history of a construction shows *)

Range(xs) == {xs[k] : k \in 1..Len(xs)}

\* the invocation is a sign-in, of either flavor
IsSignin(c) == "signin" \in Range(c.argv)

\* the invocation is the verification probe
IsProbe(c) == Len(c.argv) = 3 /\ c.argv[2] = "list" /\ c.argv[3] = "templates"

\* the invocation is the version probe
IsVersionProbe(c) == Len(c.argv) = 2 /\ c.argv[2] = "--version"

SigninCalls(i) == {k \in 1..Len(calls[i]) : IsSignin(calls[i][k])}

ProbeCalls(i) == {k \in 1..Len(calls[i]) : IsProbe(calls[i][k])}

\* the process ran and exited with 0
ExitedZero(c) == c.ran.launch = "ran" /\ c.ran.returncode = 0

\* the process ran and exited with another code
ExitedNonZero(c) == c.ran.launch = "ran" /\ c.ran.returncode # 0

\* the process ran, failed, and its stderr holds the marker text
SaidNotSignedIn(c) ==
    ExitedNonZero(c) /\ StrContains("not currently signed in", c.ran.stderr.bytes)

\* the value OP_SESSION_<shorthand> had when the construction began
EnvTokenAtStart(i) == ghost[i].env0[SessVarName(self[i].account_shorthand)]

\* the text a process wrote, without its trailing whitespace
Trimmed(b) == RstripStr(b.bytes)

----------------------------------------------------------------------------
(* Session reuse and invalidation *)

\* C1: with use_existing_session set, a token in OP_SESSION_<shorthand> and
\* a verification probe that exits 0, the construction does not fail, the
\* object's token is the token the environment held, and no sign-in of
\* either flavor is run, whatever the password and the prompt permission.
C1_SessionReuse ==
    \A i \in Inst :
        \A k \in ProbeCalls(i) :
            (kwargs[i].use_existing_session /\ ExitedZero(calls[i][k]))
            => /\ pc[i] \in {"signin", "export", "done"}
               /\ raised[i] = NoExc
               /\ Truthy(EnvTokenAtStart(i))
               /\ self[i]._token = EnvTokenAtStart(i)
               /\ SigninCalls(i) = {}
               /\ pc[i] = "done" => env[self[i]._sess_var] = EnvTokenAtStart(i)

\* a session reused by a caller that gave no password and forbade the prompt
C1_Witness ==
    \E i \in Inst :
        /\ pc[i] = "done"
        /\ kwargs[i].use_existing_session
        /\ kwargs[i].password = None /\ ~kwargs[i].password_prompt
        /\ \E k \in ProbeCalls(i) : ExitedZero(calls[i][k])
        /\ self[i]._token = "stale"

\* C2: with use_existing_session set and a token in the environment, a
\* probe that fails with "not currently signed in" on stderr discards the
\* token; with a password or the permission to prompt the constructor's
\* next step is a sign-in, and a construction that then succeeds exposes
\* the token that sign-in printed, not the one read from the environment.
C2_SessionInvalidation ==
    /\ [](\A i \in Inst : \A k \in ProbeCalls(i) :
            SaidNotSignedIn(calls[i][k]) =>
              /\ pc[i] = "signin" => (self[i]._token = None /\ k = Len(calls[i]))
              /\ pc[i] \in {"export", "done"} =>
                   /\ Len(calls[i]) = k + 1
                   /\ IsSignin(calls[i][k + 1])
                   /\ ExitedZero(calls[i][k + 1])
                   /\ self[i]._token = Trimmed(calls[i][k + 1].ran.stdout))
    /\ [][\A i \in Inst :
            (/\ pc[i] = "signin" /\ pc'[i] # "signin"
             /\ \E k \in ProbeCalls(i) : SaidNotSignedIn(calls[i][k])
             /\ (Truthy(kwargs[i].password) \/ kwargs[i].password_prompt))
            => /\ Len(calls'[i]) = Len(calls[i]) + 1
               /\ IsSignin(calls'[i][Len(calls'[i])])]_vars

\* a stale token was invalidated and the sign-in that followed gave tokA
C2_Witness ==
    \E i \in Inst :
        /\ pc[i] = "done"
        /\ EnvTokenAtStart(i) = "stale"
        /\ \E k \in ProbeCalls(i) : SaidNotSignedIn(calls[i][k])
        /\ self[i]._token = "tokA"
        /\ env[self[i]._sess_var] = "tokA"

\* C3: a probe that exits non-zero without "not currently signed in" on its
\* stderr ends the construction with the OPCmdFailedException of that run
\* (its exit code, its trimmed stderr), no invocation follows the probe, and
\* a construction goes on after a failed probe only when the marker was there.
C3_ProbeFailurePropagates ==
    \A i \in Inst : \A k \in ProbeCalls(i) :
        LET c == calls[i][k]
        IN  /\ (ExitedNonZero(c) /\ ~SaidNotSignedIn(c))
               => /\ pc[i] = "failed"
                  /\ raised[i].kind = "OPCmdFailedException"
                  /\ raised[i].returncode = c.ran.returncode
                  /\ raised[i].err_output = Trimmed(c.ran.stderr)
                  /\ k = Len(calls[i])
            /\ (~ExitedZero(c) /\ pc[i] # "failed") => SaidNotSignedIn(c)

\* a probe failed with exit code 6 and an empty stderr
C3_Witness ==
    \E i \in Inst :
        /\ pc[i] = "failed"
        /\ \E k \in ProbeCalls(i) :
             /\ calls[i][k].ran.launch = "ran"
             /\ calls[i][k].ran.returncode = 6
        /\ raised[i].kind = "OPCmdFailedException"

----------------------------------------------------------------------------
(* The sign-in step *)

\* the construction holds no valid token: reuse was not asked for, the
\* environment held no token, or the probe invalidated it
NoValidToken(i) ==
    \/ ~kwargs[i].use_existing_session
    \/ ~Truthy(EnvTokenAtStart(i))
    \/ \E k \in ProbeCalls(i) : SaidNotSignedIn(calls[i][k])

\* C4: a constructor that reaches the sign-in step without a valid token
\* and has neither a password (a non-empty one: the code tests the
\* password's truth) nor the permission to prompt fails with
\* OPNotSignedInException and runs no sign-in; with a password or the
\* permission to prompt it runs a sign-in subprocess.
C4_SigninNeedsPasswordOrPrompt ==
    [][\A i \in Inst :
         (pc[i] = "signin" /\ pc'[i] # "signin" /\ NoValidToken(i))
         => IF ~Truthy(kwargs[i].password) /\ ~kwargs[i].password_prompt
            THEN /\ pc'[i] = "failed"
                 /\ raised'[i].kind = "OPNotSignedInException"
                 /\ calls'[i] = calls[i]
                 /\ SigninCalls(i) = {}
            ELSE /\ Len(calls'[i]) = Len(calls[i]) + 1
                 /\ IsSignin(calls'[i][Len(calls'[i])])
                 /\ SigninCalls(i) = {}]_vars

\* an invalidated token, an empty password and no prompt: NotSignedIn, and
\* the probe is the last invocation
C4_Witness ==
    \E i \in Inst :
        /\ pc[i] = "failed"
        /\ raised[i].kind = "OPNotSignedInException"
        /\ kwargs[i].password = "" /\ ~kwargs[i].password_prompt
        /\ \E k \in ProbeCalls(i) : SaidNotSignedIn(calls[i][k])
        /\ SigninCalls(i) = {}

\* C5: a sign-in subprocess, normal or initial, that exits non-zero ends
\* the construction with OPSigninException, not OPCmdFailedException, and
\* the exception has the exit code and the trimmed stderr of the run and of
\* the OPCmdFailedException it was made from.
C5_SigninFailureWrapped ==
    \A i \in Inst : \A k \in SigninCalls(i) :
        LET c == calls[i][k]
        IN  ExitedNonZero(c)
            => /\ pc[i] = "failed"
               /\ raised[i].kind = "OPSigninException"
               /\ raised[i].returncode = c.ran.returncode
               /\ raised[i].err_output = Trimmed(c.ran.stderr)
               /\ raised[i].cause.kind = "OPCmdFailedException"
               /\ raised[i].cause.returncode = raised[i].returncode
               /\ raised[i].cause.err_output = raised[i].err_output

\* an initial sign-in was rejected with exit code 145
C5_Witness ==
    \E i \in Inst : \E k \in SigninCalls(i) :
        /\ "--shorthand" \in Range(calls[i][k].argv)
        /\ calls[i][k].ran.launch = "ran"
        /\ calls[i][k].ran.returncode = 145
        /\ raised[i].kind = "OPSigninException"

\* the shorthand a construction is to use: the argument, else the
\* latest_signin of the configuration it read
ExpectedShorthand(i) ==
    IF kwargs[i].account_shorthand # None
    THEN kwargs[i].account_shorthand
    ELSE ghost[i].fs.json.latest_signin

\* C6: when a construction has succeeded, by reuse or by sign-in, the
\* environment entry OP_SESSION_<shorthand> holds the object's token and
\* session_var is OP_SESSION_<shorthand>, for the shorthand resolved at
\* construction.
C6_TokenExported ==
    \A i \in Inst :
        pc[i] = "done"
        => /\ self[i]._sess_var = "OP_SESSION_" \o ExpectedShorthand(i)
           /\ env[self[i]._sess_var] = self[i]._token

\* a fresh sign-in for the shorthand of the configuration replaced the
\* token the environment held
C6_Witness ==
    \E i \in Inst :
        /\ pc[i] = "done"
        /\ kwargs[i].account_shorthand = None
        /\ SigninCalls(i) # {}
        /\ ghost[i].env0["OP_SESSION_b"] = "stale"
        /\ env["OP_SESSION_b"] = "tokA"
        /\ self[i]._token = "tokA"

----------------------------------------------------------------------------
(* The account shorthand *)

\* the constructor is past lines 142-153: it went on, or it failed after a
\* version probe that succeeded
ShorthandStageDone(i) ==
    \/ pc[i] \in {"verify", "signin", "export", "done"}
    \/ pc[i] = "failed" /\ Len(calls[i]) >= 1 /\ ExitedZero(calls[i][1])

\* no configuration file is found, or it is gone when opened
ConfigMissing(fs) ==
    \/ fs.exists \cap Range(OP_CONFIG_PATHS) = {}
    \/ fs.open = "FileNotFoundError"

\* the configuration file is there and may not be read
ConfigUnreadable(fs) == ~ConfigMissing(fs) /\ fs.open = "PermissionError"

\* the configuration file is read and is not JSON
ConfigUndecodable(fs) ==
    ~ConfigMissing(fs) /\ fs.open = "ok" /\ ~fs.json_valid

ConfigLoaded(fs) == ~ConfigMissing(fs) /\ fs.open = "ok" /\ fs.json_valid

\* the configuration is loaded and has no latest_signin key
ConfigLacksKey(fs) == ConfigLoaded(fs) /\ "latest_signin" \notin DOMAIN fs.json

\* the configuration is loaded and its latest_signin is null
ConfigLatestNull(fs) ==
    /\ ConfigLoaded(fs) /\ "latest_signin" \in DOMAIN fs.json
    /\ fs.json.latest_signin = None

\* the construction failed with an exception of this kind after the version
\* probe alone: no verification probe and no sign-in was run
FailedBeforeSession(i, kind) ==
    /\ pc[i] = "failed"
    /\ raised[i].kind = kind
    /\ Len(calls[i]) = 1 /\ IsVersionProbe(calls[i][1])

\* C7 as stated: the shorthand is the argument, else the configuration's
\* latest_signin, and without an argument a configuration that is missing,
\* unreadable or without the latest_signin key makes the construction fail
\* with OPNotSignedInException before any probe or sign-in.
C7_Original ==
    \A i \in Inst :
        ShorthandStageDone(i)
        => IF kwargs[i].account_shorthand # None
           THEN self[i].account_shorthand = kwargs[i].account_shorthand
           ELSE LET fs == ghost[i].fs
                IN  IF ConfigMissing(fs) \/ ConfigUnreadable(fs) \/ ConfigLacksKey(fs)
                    THEN FailedBeforeSession(i, "OPNotSignedInException")
                    ELSE ConfigLoaded(fs) /\ ~ConfigLatestNull(fs)
                         => self[i].account_shorthand = fs.json.latest_signin

\* C7 (amended): the shorthand is the argument, else the configuration's
\* latest_signin.  Without an argument, a configuration that loads and has
\* no latest_signin (or a null one) makes the construction fail with
\* OPNotSignedInException, and a configuration that is missing, unreadable
\* or not decodable makes it fail with OPConfigNotFoundException; in both
\* cases before any verification probe or sign-in is run.
C7_ShorthandResolution ==
    \A i \in Inst :
        ShorthandStageDone(i)
        => IF kwargs[i].account_shorthand # None
           THEN self[i].account_shorthand = kwargs[i].account_shorthand
           ELSE LET fs == ghost[i].fs
                IN  IF ConfigMissing(fs) \/ ConfigUnreadable(fs) \/ ConfigUndecodable(fs)
                    THEN FailedBeforeSession(i, "OPConfigNotFoundException")
                    ELSE IF ConfigLacksKey(fs) \/ ConfigLatestNull(fs)
                    THEN FailedBeforeSession(i, "OPNotSignedInException")
                    ELSE self[i].account_shorthand = fs.json.latest_signin

\* no shorthand argument and a configuration without latest_signin
C7_Witness ==
    \E i \in Inst :
        /\ kwargs[i].account_shorthand = None
        /\ ConfigLacksKey(ghost[i].fs)
        /\ FailedBeforeSession(i, "OPNotSignedInException")

----------------------------------------------------------------------------
(* The sign-in flavor *)

----------------------------------------------------------------------------
(* The token of a constructed session manager *)

\* C9 as stated: after a successful construction the token is a non-empty
\* string, and when a probe of that construction reported "not currently
\* signed in" the token is the one a later sign-in printed.
C9_TokenNonEmpty ==
    \A i \in Inst :
        pc[i] = "done"
        => /\ Truthy(self[i]._token)
           /\ \A k \in ProbeCalls(i) :
                SaidNotSignedIn(calls[i][k])
                => \E m \in SigninCalls(i) :
                     /\ m > k
                     /\ ExitedZero(calls[i][m])
                     /\ self[i]._token = Trimmed(calls[i][m].ran.stdout)

----------------------------------------------------------------------------
(* The argument vectors *)

\* the primary command keyword of each builder, None for the version probe
PrimaryCommand(builder) ==
    CASE builder \in {"get_item", "get_totp", "get_document"} -> "get"
      [] builder = "normal_signin" -> "signin"
      [] builder = "create_item" -> "create"
      [] builder \in {"verify_signin", "list_items"} -> "list"
      [] builder = "signout" -> "signout"
      [] builder = "forget" -> "forget"
      [] OTHER -> None

GlobalFlags == {"--account", "--session"}

\* C10: every vector a builder returns begins with the executable path, and
\* every --account and --session flag, with its value, stands before the
\* primary command keyword; the sign-out vector is
\* [exe, --account, shorthand, --session, token, signout], followed by
\* --forget exactly when forget is set.
C10_GlobalFlagsFirst ==
    (built.builder # "none" /\ built.result.ok)
    => LET v == built.result.value.argv
           command == PrimaryCommand(built.builder)
       IN  /\ v[1] = built.inputs.op_exe
           /\ command # None
              => /\ \E k \in 1..Len(v) : v[k] = command
                 /\ \A j \in 1..Len(v) :
                      v[j] \in GlobalFlags
                      => \E k \in (j + 2)..Len(v) :
                           /\ v[k] = command
                           /\ \A m \in 1..(k - 1) : v[m] # command
           /\ command = None => \A j \in 1..Len(v) : v[j] \notin GlobalFlags
           /\ built.builder = "signout"
              => v = <<built.inputs.op_exe,
                       "--account", built.inputs.account_shorthand,
                       "--session", built.inputs.session, "signout">>
                     \o (IF built.inputs.forget THEN <<"--forget">> ELSE <<>>)

\* a sign-out vector with --forget
C10_Witness ==
    /\ built.builder = "signout"
    /\ built.inputs.forget
    /\ built.result.ok
    /\ Len(built.result.value.argv) = 7

----------------------------------------------------------------------------
(* Optional parameters of the builders *)

\* the builders with an optional vault
VaultBuilders == {"get_item", "get_totp", "get_document", "create_item", "list_items"}

\* C11 as stated: an optional parameter that is omitted (None) contributes
\* no token to the vector: not its flag, not an empty string and not a null
\* placeholder.  No vector holds None; without a vault there is no --vault,
\* without fields no --fields, without a first URL no --url, without forget
\* no --forget; a vector whose inputs are all omitted or non-empty holds no
\* empty token; and the normal sign-in vector without a shorthand is
\* [exe, signin, --raw].
C11_OmittedContributesNothing ==
    (built.builder # "none" /\ built.result.ok)
    => LET v == built.result.value.argv
           inp == built.inputs
           b == built.builder
       IN  /\ \A j \in 1..Len(v) : v[j] # None
           /\ (b \in VaultBuilders /\ inp.vault = None)
              => /\ "--vault" \notin Range(v)
                 /\ (b \in {"get_totp", "get_document"}
                     => \A j \in 1..Len(v) : v[j] # "")
           /\ (b = "get_item" /\ inp.fields = None)
              => /\ "--fields" \notin Range(v)
                 /\ (inp.vault = None => \A j \in 1..Len(v) : v[j] # "")
           /\ (b = "create_item" /\ first_url(inp.item) = <<>>)
              => /\ "--url" \notin Range(v)
                 /\ (inp.vault = None => \A j \in 1..Len(v) : v[j] # "")
           /\ (b = "signout" /\ ~inp.forget) => "--forget" \notin Range(v)
           /\ (b = "normal_signin" /\ inp.account_shorthand = None)
              => v = <<inp.op_exe, "signin", "--raw">>

----------------------------------------------------------------------------
(* The get builders *)

\* the subcommand each get builder names
GetSubcommand(builder) ==
    CASE builder = "get_item" -> "item"
      [] builder = "get_totp" -> "totp"
      [] builder = "get_document" -> "document"

\* C12: the get-item vector is exactly [exe, get, item, identifier], then
\* --vault and the vault exactly when a (non-empty) vault is given, then
\* --fields and the field list exactly when a (non-empty) field list is
\* given, in that order; the totp and the document vectors have the same
\* shape with their own subcommand and no field list.  The vector is a
\* function of the inputs alone.
C12_GetVectors ==
    (built.builder \in {"get_item", "get_totp", "get_document"})
    => LET inp == built.inputs
           vault_part == IF inp.vault \notin {None, ""}
                         THEN <<"--vault", inp.vault>> ELSE <<>>
           fields_part == IF built.builder = "get_item" /\ inp.fields \notin {None, ""}
                          THEN <<"--fields", inp.fields>> ELSE <<>>
       IN  /\ built.result.ok
           /\ built.result.value.argv =
                <<inp.op_exe, "get", GetSubcommand(built.builder), inp.identifier>>
                \o vault_part \o fields_part

\* a get-item vector with a vault and a field list
C12_Witness ==
    /\ built.builder = "get_item"
    /\ built.inputs.vault = "Test Data"
    /\ built.inputs.fields = "username,password"
    /\ Len(built.result.value.argv) = 8

----------------------------------------------------------------------------
(* The create-item builder *)

\* C13: for an item whose is_from_template is false the create-item builder
\* fails with OPInvalidItemException, and then it has written no temporary
\* file, has produced no vector and no subprocess has been run.
C13_InvalidItemRejected ==
    (built.builder = "create_item" /\ ~built.inputs.item.is_from_template)
    => /\ ~built.result.ok
       /\ built.result.exc.kind = "OPInvalidItemException"
       /\ built.result.value = None
       /\ built.result.tempfiles = <<>>
       /\ \A i \in Inst : calls[i] = <<>>

\* an item with URLs that is not from a template has been refused
C13_Witness ==
    /\ built.builder = "create_item"
    /\ ~built.inputs.item.is_from_template
    /\ Len(built.inputs.item.urls) = 2
    /\ built.result.exc.kind = "OPInvalidItemException"

\* C18: for an item from a template the create-item vector is exactly
\* [exe, create, item, category, --title, title, --template, tempfile],
\* then --url and the value of the item's first URL exactly when the item
\* has a first URL whose value is not empty, then --vault and the vault
\* exactly when a (non-empty) vault is given; the value of a later URL is
\* never in the vector.
C18_CreateItemVector ==
    (built.builder = "create_item" /\ built.inputs.item.is_from_template)
    => LET inp == built.inputs
           urls == inp.item.urls
           url_part == IF Len(urls) > 0 /\ urls[1].url \notin {None, ""}
                       THEN <<"--url", urls[1].url>> ELSE <<>>
           vault_part == IF inp.vault \notin {None, ""}
                         THEN <<"--vault", inp.vault>> ELSE <<>>
           v == built.result.value.argv
       IN  /\ built.result.ok
           /\ v = <<inp.op_exe, "create", "item", inp.item.category,
                    "--title", inp.item_name,
                    "--template", inp.item.tempfile>>
                  \o url_part \o vault_part
           /\ \A k \in 2..Len(urls) : urls[k].url \notin Range(v)

\* an item with two URLs created in a vault: the first URL and the vault
\* are in the vector
C18_Witness ==
    /\ built.builder = "create_item"
    /\ built.result.ok
    /\ Len(built.inputs.item.urls) = 2
    /\ built.inputs.item.urls[1].url = "https://one.example"
    /\ built.inputs.vault = "Test Data"
    /\ Len(built.result.value.argv) = 12

----------------------------------------------------------------------------
(* The executable cannot be launched *)

----------------------------------------------------------------------------
(* The process executor on its own: _run_raw and _run applied to an        *)
(* argument vector, an input and what the subprocess did.                  *)

RunArgvs == {<<OP_PATH, "--version">>, <<"/usr/local/bin/op", "list", "templates">>}

RunInputs == {None, "", "pw"}

RunOutcomes == VersionRuns \cup VerifyRuns \cup SigninRuns

RunRaw ==
    \E a \in RunArgvs, s \in RunInputs, c \in BOOLEAN, g \in BOOLEAN, ran \in RunOutcomes :
        /\ built' = Request("run_raw",
                           [argv |-> a, input_string |-> s, capture_stdout |-> c,
                            ignore_error |-> g, ran |-> ran],
                           run_raw(a, s, c, g, ran))
        /\ UNCHANGED sessionVars

Run ==
    \E a \in RunArgvs, s \in RunInputs, c \in BOOLEAN, d \in BOOLEAN, ran \in RunOutcomes :
        /\ built' = Request("run",
                           [argv |-> a, input_string |-> s, capture_stdout |-> c,
                            decode |-> d /\ c, ignore_error |-> FALSE, ran |-> ran],
                           run(a, c, s, d /\ c, ran))
        /\ UNCHANGED sessionVars

NextRun ==
    \/ RunRaw
    \/ Run

SpecRun == InitArgv /\ [][NextRun]_vars

\* t is s without its trailing whitespace
IsRstripOf(t, s) ==
    \E n \in 0..Len(s) :
        /\ t = SubSeq(s, 1, n)
        /\ \A k \in (n + 1)..Len(s) : SubSeq(s, k, k) \in Whitespace
        /\ n > 0 => SubSeq(s, n, n) \notin Whitespace

\* C14: a run whose subprocess was launched raises OPCmdFailedException
\* exactly when the exit code is not 0 and ignore_error is not set; the
\* exception carries that exit code and the subprocess's stderr, decoded
\* and without its trailing whitespace.  With ignore_error set a non-zero
\* exit returns (stdout, stderr, exit code) as the subprocess left them.
C14_CheckedRun ==
    (built.builder \in {"run_raw", "run"} /\ built.inputs.ran.launch = "ran")
    => LET inp == built.inputs
           ran == inp.ran
           res == built.result
       IN  /\ (~inp.ignore_error /\ ran.returncode # 0)
              => /\ ~res.ok
                 /\ res.exc.kind = "OPCmdFailedException"
                 /\ res.exc.returncode = ran.returncode
                 /\ IsRstripOf(res.exc.err_output, ran.stderr.bytes)
           /\ ran.returncode = 0 => res.ok
           /\ inp.ignore_error
              => /\ res.ok
                 /\ IF inp.capture_stdout
                    THEN res.value[1] = ran.stdout
                    ELSE res.value[1] = None
                 /\ res.value[2] = ran.stderr
                 /\ res.value[3] = ran.returncode

\* a checked run that exited 145 with a line on stderr
C14_Witness ==
    /\ built.builder = "run_raw"
    /\ ~built.inputs.ignore_error
    /\ built.inputs.ran.returncode = 145
    /\ built.inputs.ran.stderr = B("[ERROR] You are not currently signed in\n")
    /\ built.result.exc.err_output = "[ERROR] You are not currently signed in"
    /\ built.result.exc.returncode = 145

----------------------------------------------------------------------------
(* The command line of a vector *)

\* C16 as stated: for every vector a builder returns, splitting its command
\* line, cmd_str, the way a shell does yields the vector's tokens again, in
\* their order.
C16_CmdStrRoundTrip ==
    (built.builder \in {"get_item", "get_totp", "get_document", "normal_signin",
                        "create_item", "verify_signin", "cli_version", "signout",
                        "forget", "list_items"}
     /\ built.result.ok)
    => LET split == shlex_split(cmd_str(built.result.value))
       IN  /\ split.ok
           /\ split.value = built.result.value.argv

\* the round trip of the vectors that hold no None: it holds for each of
\* them, quoted tokens and empty tokens included
CmdStrRoundTripOfStrings ==
    (built.builder # "none" /\ built.result.ok
     /\ None \notin Range(built.result.value.argv))
    => LET split == shlex_split(cmd_str(built.result.value))
       IN  /\ split.ok
           /\ split.value = built.result.value.argv

----------------------------------------------------------------------------
(* The account lookup of the configuration on its own: get_config applied  *)
(* to a loaded configuration and a shorthand argument.                     *)

\* the longest account list of a configuration
MaxAccounts == 3

AccountEntries ==
    { [shorthand |-> "a", url |-> "https://a.1password.com"],
      [shorthand |-> "a", url |-> "https://a.1password.eu"],
      [shorthand |-> "b", url |-> "https://b.1password.com"] }

AccountLists == UNION {[1..n -> AccountEntries] : n \in 0..MaxAccounts}

\* loaded configurations: without latest_signin, with null there, and with
\* a shorthand there that an account may or may not have
Configs ==
    {[accounts |-> l] : l \in AccountLists}
    \cup {[latest_signin |-> x, accounts |-> l] :
            x \in {None, "a", "zz"}, l \in AccountLists}

GetConfig ==
    \E config \in Configs, shorthand \in {None, "a", "b", "zz"} :
        /\ built' = Request("get_config",
                           [config |-> config, shorthand |-> shorthand],
                           get_config(config, shorthand))
        /\ UNCHANGED sessionVars

NextConfig == GetConfig

SpecConfig == InitArgv /\ [][NextConfig]_vars

\* C19: the lookup uses the shorthand argument when one is given and the
\* configuration's latest_signin otherwise; it fails with
\* OPConfigNotFoundException when neither is there or when no account has
\* that shorthand; otherwise it returns the last of the accounts that have
\* that shorthand.
C19_AccountLookup ==
    (built.builder = "get_config")
    => LET config == built.inputs.config
           accounts == config.accounts
           sh == IF built.inputs.shorthand # None THEN built.inputs.shorthand
                 ELSE IF "latest_signin" \in DOMAIN config THEN config.latest_signin
                 ELSE None
           matches == {k \in 1..Len(accounts) : accounts[k].shorthand = sh}
       IN  IF sh = None \/ matches = {}
           THEN /\ ~built.result.ok
                /\ built.result.exc.kind = "OPConfigNotFoundException"
           ELSE /\ built.result.ok
                /\ built.result.value \in AccountEntries
                /\ \E k \in matches :
                     /\ built.result.value = accounts[k]
                     /\ \A m \in matches : m <= k

\* two accounts share the shorthand of latest_signin and differ in their
\* URL; the later one is returned
C19_Witness ==
    /\ built.builder = "get_config"
    /\ built.inputs.shorthand = None
    /\ "latest_signin" \in DOMAIN built.inputs.config
    /\ built.inputs.config.latest_signin = "a"
    /\ Len(built.inputs.config.accounts) = 3
    /\ built.inputs.config.accounts[1].url = "https://a.1password.com"
    /\ built.inputs.config.accounts[2].shorthand = "b"
    /\ built.inputs.config.accounts[3].url = "https://a.1password.eu"
    /\ built.result.ok
    /\ built.result.value.url = "https://a.1password.eu"

----------------------------------------------------------------------------
(* The environment during a construction *)

\* C20: from the call of the constructor until it has returned the
\* environment is what it was at the call, so a construction that failed,
\* whatever the failure, has left every OP_SESSION variable as it found
\* it, the variable of an invalidated token included; the one step that
\* changes the environment is the last step of a construction that
\* succeeds, which writes the object's token to OP_SESSION_<shorthand>.
C20_ExportIsLastStep ==
    /\ [](\A i \in Inst : pc[i] \notin {"idle", "done"} => env = ghost[i].env0)
    /\ [][env' # env
          => \E i \in Inst :
               /\ pc[i] = "export"
               /\ pc'[i] = "done"
               /\ env' = [env EXCEPT ![SessVarName(self[i].account_shorthand)] =
                                       self[i]._token]]_vars

\* the probe invalidated the token of the environment, the sign-in that
\* followed failed, and the variable still holds the token
C20_Witness ==
    \E i \in Inst :
        /\ pc[i] = "failed"
        /\ raised[i].kind = "OPSigninException"
        /\ \E k \in ProbeCalls(i) : SaidNotSignedIn(calls[i][k])
        /\ EnvTokenAtStart(i) = "stale"
        /\ env[SessVarName(self[i].account_shorthand)] = "stale"

----------------------------------------------------------------------------
(* Two session managers constructed at the same time.  The constructor     *)
(* takes no lock: its subprocesses and its write to the environment        *)
(* interleave with those of the other construction.                        *)

\* the constructor arguments of the concurrent constructions: a password
\* and no sign-in address, email address or secret key
ConcKwargs ==
    {kw \in KwargSpace :
        /\ kw.signin_address = None /\ kw.email_address = None
        /\ kw.secret_key = None
        /\ kw.password = "pw" /\ ~kw.password_prompt}

\* a construction begins, whatever the other session manager is doing
StartConc(i) == \E kw \in ConcKwargs : Construct(i, kw)

NextConc ==
    \E i \in Inst :
        \/ StartConc(i)
        \/ GetCliVersion(i)
        \/ ResolveShorthand(i)
        \/ VerifySignin(i)
        \/ Signin(i)
        \/ Export(i)

SpecConc == Init /\ [][NextConc]_vars

\* the variable of a constructed session manager holds another token
Clobbered(i) ==
    /\ pc[i] = "done"
    /\ env[SessVarName(self[i].account_shorthand)] # self[i]._token

\* C17: after a construction has succeeded, OP_SESSION_<shorthand> differs
\* from the object's token only when the other construction has succeeded
\* for the same shorthand and has written its own token there; with
\* different shorthands each variable holds the token of its own session
\* manager.
C17_SharedVariable ==
    \A i \in Inst :
        Clobbered(i)
        => \E j \in Inst \ {i} :
             /\ pc[j] = "done"
             /\ self[j].account_shorthand = self[i].account_shorthand
             /\ env[SessVarName(self[i].account_shorthand)] = self[j]._token

\* both constructions began with an empty environment, both signed in to
\* the same shorthand and succeeded, and the variable holds the token of
\* op2 and not the token of op1
C17_Witness ==
    /\ pc["op1"] = "done" /\ pc["op2"] = "done"
    /\ ghost["op1"].env0 = [v \in SessVars |-> None]
    /\ ghost["op2"].env0 = [v \in SessVars |-> None]
    /\ self["op1"].account_shorthand = self["op2"].account_shorthand
    /\ self["op1"]._token = "tokA"
    /\ self["op2"]._token = "stale"
    /\ env[SessVarName(self["op1"].account_shorthand)] = "stale"
    /\ Clobbered("op1")

----------------------------------------------------------------------------
(* When the verification probe is run *)

\* the construction is past its verification stage: the shorthand is
\* resolved and the probe, if one was due, has been run
PastVerifyStage(i) == self[i].account_shorthand # None /\ pc[i] # "verify"

\* the construction took the sign-in step: it ran a sign-in, or it refused
\* to for want of a password and of the permission to prompt
TookSigninStep(i) ==
    \/ SigninCalls(i) # {}
    \/ pc[i] = "failed" /\ raised[i].kind = "OPNotSignedInException"

\* C21: a construction that has resolved its shorthand runs the
\* verification probe exactly when use_existing_session is set and
\* OP_SESSION_<shorthand> held a non-empty token at the call.  Without
\* use_existing_session no probe is run, the token of the environment is
\* not the source of the object's token, and the construction takes the
\* sign-in step; with use_existing_session and no token, or an empty one,
\* no probe is run and the construction takes the sign-in step.
C21_ProbeWhenReusing ==
    \A i \in Inst :
        LET reuse == kwargs[i].use_existing_session
            held == self[i].account_shorthand # None /\ Truthy(EnvTokenAtStart(i))
        IN  /\ ProbeCalls(i) # {} => (reuse /\ held)
            /\ (PastVerifyStage(i) /\ reuse /\ held) => ProbeCalls(i) # {}
            /\ (PastVerifyStage(i) /\ ~(reuse /\ held) /\ pc[i] # "signin")
               => /\ ProbeCalls(i) = {}
                  /\ TookSigninStep(i)
                  /\ pc[i] \in {"export", "done"}
                     => \E k \in SigninCalls(i) :
                          self[i]._token = Trimmed(calls[i][k].ran.stdout)

\* with use_existing_session and an empty token in the environment the
\* construction ran no probe, signed in and succeeded
C21_Witness ==
    \E i \in Inst :
        /\ pc[i] = "done"
        /\ kwargs[i].use_existing_session
        /\ EnvTokenAtStart(i) = ""
        /\ ProbeCalls(i) = {}
        /\ SigninCalls(i) # {}
        /\ self[i]._token = "tokA"

----------------------------------------------------------------------------
(* The order of the subprocesses of a construction *)

\* the invocation let the construction go on: it exited 0, or it is the
\* probe that reported "not currently signed in"
LetsConstructionGoOn(c) == ExitedZero(c) \/ (IsProbe(c) /\ SaidNotSignedIn(c))

\* C22: the subprocesses of a construction are the version probe, then at
\* most one verification probe, then at most one sign-in.  The version
\* probe is the first invocation and is run before the configuration or
\* the environment is consulted; a sign-in never stands before the probe;
\* no invocation is run twice; an invocation that failed, other than the
\* probe that reported "not currently signed in", is the last one and the
\* construction has failed.  The history grows by one invocation at a time
\* and never after the construction has failed or succeeded.
C22_InvocationOrder ==
    /\ [](\A i \in Inst :
            LET cs == calls[i]
            IN  /\ Len(cs) <= 3
                /\ \A k \in 1..Len(cs) :
                     /\ IsVersionProbe(cs[k]) <=> k = 1
                     /\ k > 1 => (IsProbe(cs[k]) \/ IsSignin(cs[k]))
                     /\ ~LetsConstructionGoOn(cs[k])
                        => (k = Len(cs) /\ pc[i] = "failed")
                /\ pc[i] \notin {"idle", "version"} => Len(cs) >= 1
                /\ ghost[i].fs # NoFs => Len(cs) >= 1
                /\ Cardinality(ProbeCalls(i)) <= 1
                /\ Cardinality(SigninCalls(i)) <= 1
                /\ \A p \in ProbeCalls(i) : \A s \in SigninCalls(i) : p < s)
    /\ [][\A i \in Inst :
            calls'[i] # calls[i]
            => \/ /\ pc[i] \in {"done", "failed"}
                  /\ pc'[i] = "idle"
                  /\ calls'[i] = <<>>
               \/ /\ pc[i] \in {"version", "verify", "signin"}
                  /\ Len(calls'[i]) = Len(calls[i]) + 1
                  /\ SubSeq(calls'[i], 1, Len(calls[i])) = calls[i]]_vars

\* the version probe, then the probe that invalidated the token, then a
\* sign-in that failed: three invocations and no more
C22_Witness ==
    \E i \in Inst :
        /\ pc[i] = "failed"
        /\ Len(calls[i]) = 3
        /\ IsVersionProbe(calls[i][1])
        /\ IsProbe(calls[i][2]) /\ SaidNotSignedIn(calls[i][2])
        /\ IsSignin(calls[i][3]) /\ ExitedNonZero(calls[i][3])
        /\ raised[i].kind = "OPSigninException"

====
